---- MODULE Spec2Model ----
(***************************************************************************)
(* A model of pkg/googlecloud/subscriber.go: the Subscriber that resolves  *)
(* a Pub/Sub subscription for a topic, runs the retry-wrapped receive loop *)
(* that bridges application ack/nack to upstream Ack/Nack, and shuts all   *)
(* of it down in Close.                                                    *)
(*                                                                         *)
(* Goroutines are processes; every action is one atomic step between two   *)
(* synchronisation points of the code (a mutex section, a channel          *)
(* operation, a select, a WaitGroup operation).  A Go select that finds    *)
(* several cases ready picks any of them.  A panic raised by a channel or  *)
(* a WaitGroup operation ends the call that raised it and is recorded; the *)
(* other goroutines keep running, as they do up to the moment the runtime  *)
(* stops the process or when the caller recovers.                          *)
(***************************************************************************)
EXTENDS Integers, Sequences, FiniteSets, TLC

(***************************************************************************)
(* Bounds of the model.                                                    *)
(***************************************************************************)
\* envelopes the transport delivers to one stream
MaxEnvelopes == 2
\* failed Receive calls of a stream that are told apart (they are counted up to
\* this number; Receive may fail any number of times)
MaxRetries == 2
\* concurrent Close calls
NumClosers == 2
\* Subscribe / SubscribeInitialize calls in the lifecycle scenarios
NumCalls == 2
\* concurrent resolutions in the resolution scenarios
NumResolvers == 3
\* successive resolutions in the reconciliation scenarios
NumReconcilers == 2
\* concurrent Subscribe calls racing with one Close call
NumRacers == 3

(***************************************************************************)
(* Values.                                                                 *)
(***************************************************************************)
Topics == {"t1", "t2"}

ErrNil == "nil"
ErrSubscriberClosed == "ErrSubscriberClosed"
ErrSubscriptionDoesNotExist == "ErrSubscriptionDoesNotExist"
ErrTopicDoesNotExist == "ErrTopicDoesNotExist"
ErrUnexpectedTopic == "ErrUnexpectedTopic"
\* an error of the transport, wrapped with the name of the remote call that failed
ErrRemote(op) == "error:" \o op

NoSub == [client |-> 0, name |-> "", serial |-> 0, ReceiveSettings |-> "default"]

Range(s) == {s[i] : i \in DOMAIN s}

(***************************************************************************)
(* SubscriberConfig.                                                       *)
(***************************************************************************)
\* func (sc SubscriberConfig) topicProjectID() string
topicProjectID(sc) == IF sc.TopicProjectID # "" THEN sc.TopicProjectID ELSE sc.ProjectID

\* func TopicSubscriptionName(topic string) string
TopicSubscriptionName(topic) == topic

\* func TopicSubscriptionNameWithSuffix(suffix string) SubscriptionNameFn
TopicSubscriptionNameWithSuffix(suffix, topic) == topic \o suffix

\* s.config.GenerateSubscriptionName(topic): the default, the suffix function, or
\* a caller's own function (the tests use one that ignores the topic).
GenerateSubscriptionName(sc, topic) ==
    CASE sc.GenerateSubscriptionName = "TopicSubscriptionName" -> TopicSubscriptionName(topic)
      [] sc.GenerateSubscriptionName = "TopicSubscriptionNameWithSuffix" ->
             TopicSubscriptionNameWithSuffix("_sub", topic)
      [] OTHER -> "sub_fixed"

\* fmt.Sprintf("projects/%s/topics/%s", project, topicName), also what
\* client.Topic(topicName).String() yields for the client's project
FullyQualifiedTopicName(project, topicName) ==
    "projects/" \o project \o "/topics/" \o topicName

\* strings.ReplaceAll(filter, " ", ""), a filter being a sequence of characters
RemoveSpaces(filter) == SelectSeq(filter, LAMBDA ch : ch # " ")

\* func (s *Subscriber) isFilterChanged(config pubsub.SubscriptionConfig) bool
isFilterChanged(sc, remoteConfig) ==
    RemoveSpaces(remoteConfig.Filter) # RemoveSpaces(sc.Filter)

\* func (s *Subscriber) isPushEndpointChanged(config pubsub.SubscriptionConfig) bool
isPushEndpointChanged(sc, remoteConfig) == remoteConfig.Endpoint # sc.Endpoint

\* the zero SubscriberConfig after setDefaults, with a project
DefaultConfig ==
    [GenerateSubscriptionName |-> "TopicSubscriptionName",
     ProjectID |-> "p",
     TopicProjectID |-> "",
     DoNotCreateSubscriptionIfMissing |-> FALSE,
     DoNotUpdateSubscriptionIfEndpointChanged |-> FALSE,
     RecreateSubscriptionIfFilterChanged |-> FALSE,
     DoNotCreateTopicIfMissing |-> FALSE,
     Filter |-> <<>>,
     Endpoint |-> ""]

(***************************************************************************)
(* The remote service: the topics that exist and, per subscription name,   *)
(* the descriptor of the subscription that exists.                         *)
(***************************************************************************)
EmptyRemote == [topics |-> {}, subs |-> [n \in {} |-> 0]]

SubExists(rem, name) == name \in DOMAIN rem.subs

PutSub(rem, name, desc) ==
    [rem EXCEPT !.subs = [n \in (DOMAIN rem.subs) \cup {name} |->
                              IF n = name THEN desc ELSE rem.subs[n]]]

DeleteSub(rem, name) ==
    [rem EXCEPT !.subs = [n \in (DOMAIN rem.subs) \ {name} |-> rem.subs[n]]]

\* The remote calls, in the order a resolution may issue them; a resolution is
\* given the one call that fails ("none": all succeed).  "createTopicExists" and
\* "createSubExists" are the AlreadyExists answers of the two create calls.
Faults == {"none", "subExists", "subConfig", "subDelete", "subUpdate", "topicExists",
           "createTopic", "createTopicExists", "createSub", "createSubExists"}

\* what a step of a resolution returns
Res(sub, err, rem, log) == [sub |-> sub, err |-> err, remote |-> rem, log |-> log]

\* the descriptor given to a resolution that meets no AlreadyExists answer
NoPeer == [Topic |-> "", Filter |-> <<>>, Endpoint |-> ""]

\* func (s *Subscriber) createSubscription(ctx, client, topicName, subscriptionName)
\* An AlreadyExists answer of a create call means a peer created the resource in
\* between: the resource then exists remotely as the peer made it (peer: the
\* descriptor of the peer's subscription) and the code takes a handle to it
\* without reading it.
createSubscription(rem, sc, client, topicName, subscriptionName, fault, peer, log) ==
    LET t == FullyQualifiedTopicName(sc.ProjectID, topicName)
        exists == t \in rem.topics
        log1 == Append(log, "topicExists")
        log2 == IF exists THEN log1 ELSE Append(log1, "createTopic")
        rem2 == IF exists THEN rem ELSE [rem EXCEPT !.topics = @ \cup {t}]
        log3 == Append(log2, "createSub")
        desc == [Topic |-> t, Filter |-> sc.Filter, Endpoint |-> sc.Endpoint]
        sub == [client |-> client, name |-> subscriptionName,
                serial |-> IF fault = "createSubExists" THEN 3 ELSE 2,
                ReceiveSettings |-> "default"]
    IN  IF fault = "topicExists" THEN Res(NoSub, ErrRemote("topicExists"), rem, log1)
        ELSE IF ~exists /\ sc.DoNotCreateTopicIfMissing
        THEN Res(NoSub, ErrTopicDoesNotExist, rem, log1)
        ELSE IF ~exists /\ fault = "createTopic"
        THEN Res(NoSub, ErrRemote("createTopic"), rem, log2)
        ELSE IF fault = "createSub" THEN Res(NoSub, ErrRemote("createSub"), rem2, log3)
        ELSE IF fault = "createSubExists"
        THEN Res(sub, ErrNil,
                 PutSub([rem2 EXCEPT !.topics = @ \cup {peer.Topic}], subscriptionName, peer),
                 log3)
        ELSE Res(sub, ErrNil, PutSub(rem2, subscriptionName, desc), log3)

\* Mutant of existingSubscription: DoNotUpdateSubscriptionIfEndpointChanged is not
\* looked at.
existingSubscriptionAlwaysUpdates(rem, sc, client, sub, topicName, subscriptionName, fault, peer, log) ==
    LET config == rem.subs[subscriptionName]
        fullyQualifiedTopicName == FullyQualifiedTopicName(topicProjectID(sc), topicName)
        log1 == Append(log, "subConfig")
        sub1 == [sub EXCEPT !.ReceiveSettings = "config"]
        log2 == Append(log1, "subDelete")
        log3 == Append(log1, "subUpdate")
    IN  IF fault = "subConfig" THEN Res(NoSub, ErrRemote("subConfig"), rem, log1)
        ELSE IF config.Topic # fullyQualifiedTopicName
        THEN Res(NoSub, ErrUnexpectedTopic, rem, log1)
        ELSE IF isFilterChanged(sc, config) /\ sc.RecreateSubscriptionIfFilterChanged
        THEN IF fault = "subDelete" THEN Res(NoSub, ErrRemote("subDelete"), rem, log2)
             ELSE createSubscription(DeleteSub(rem, subscriptionName), sc, client,
                                     topicName, subscriptionName, fault, peer, log2)
        ELSE IF isPushEndpointChanged(sc, config)
        THEN IF fault = "subUpdate" THEN Res(NoSub, ErrRemote("subUpdate"), rem, log3)
             ELSE Res(sub1, ErrNil,
                      PutSub(rem, subscriptionName, [config EXCEPT !.Endpoint = sc.Endpoint]),
                      log3)
        ELSE Res(sub1, ErrNil, rem, log1)

\* func (s *Subscriber) existingSubscription(ctx, client, sub, topicName, subscriptionName)
existingSubscription(rem, sc, client, sub, topicName, subscriptionName, fault, peer, log) ==
    LET config == rem.subs[subscriptionName]
        fullyQualifiedTopicName == FullyQualifiedTopicName(topicProjectID(sc), topicName)
        log1 == Append(log, "subConfig")
        sub1 == [sub EXCEPT !.ReceiveSettings = "config"]
        log2 == Append(log1, "subDelete")
        log3 == Append(log1, "subUpdate")
    IN  IF fault = "subConfig" THEN Res(NoSub, ErrRemote("subConfig"), rem, log1)
        ELSE IF config.Topic # fullyQualifiedTopicName
        THEN Res(NoSub, ErrUnexpectedTopic, rem, log1)
        ELSE IF isFilterChanged(sc, config) /\ sc.RecreateSubscriptionIfFilterChanged
        THEN IF fault = "subDelete" THEN Res(NoSub, ErrRemote("subDelete"), rem, log2)
             ELSE createSubscription(DeleteSub(rem, subscriptionName), sc, client,
                                     topicName, subscriptionName, fault, peer, log2)
        ELSE IF sc.DoNotUpdateSubscriptionIfEndpointChanged THEN Res(sub1, ErrNil, rem, log1)
        ELSE IF isPushEndpointChanged(sc, config)
        THEN IF fault = "subUpdate" THEN Res(NoSub, ErrRemote("subUpdate"), rem, log3)
             ELSE Res(sub1, ErrNil,
                      PutSub(rem, subscriptionName, [config EXCEPT !.Endpoint = sc.Endpoint]),
                      log3)
        ELSE Res(sub1, ErrNil, rem, log1)

\* func (s *Subscriber) subscription(...), lines 377-398: what runs under the
\* exclusive lock once the client is open
subscriptionLocked(rem, sc, client, subscriptionName, topicName, fault, peer) ==
    LET sub == [client |-> client, name |-> subscriptionName, serial |-> 1,
                ReceiveSettings |-> "default"]
        log == <<"subExists">>
        created == createSubscription(rem, sc, client, topicName, subscriptionName, fault,
                                      peer, log)
    IN  IF fault = "subExists" THEN Res(NoSub, ErrRemote("subExists"), rem, log)
        ELSE IF SubExists(rem, subscriptionName)
        THEN existingSubscription(rem, sc, client, sub, topicName, subscriptionName, fault,
                                  peer, log)
        ELSE IF sc.DoNotCreateSubscriptionIfMissing
        THEN Res(NoSub, ErrSubscriptionDoesNotExist, rem, log)
        ELSE IF created.err # ErrNil THEN created
        ELSE [created EXCEPT !.sub.ReceiveSettings = "config"]

(***************************************************************************)
(* The state.                                                              *)
(***************************************************************************)
VARIABLES
    config,                     \* s.config
    remote,                     \* the remote service
    closed,                     \* s.closed, guarded by s.closedLock
    closing,                    \* s.closing: "open" or "closed"
    allSubscriptionsWaitGroup,  \* the counter of s.allSubscriptionsWaitGroup
    activeSubscriptions,        \* s.activeSubscriptions: subscription name -> handle
    activeSubscriptionsLock,    \* the call holding the exclusive lock, or 0
    clients,                    \* s.clients: the clients opened, in order
    clientClosed,               \* the clients on which Close() has been called
    call,                       \* the Subscribe / SubscribeInitialize calls
    stream,                     \* per Subscribe call: its context, goroutines and output
    env,                        \* per stream: the envelopes of the transport
    closer,                     \* the Close calls
    panics                      \* the runtime panics raised so far

vars == <<config, remote, closed, closing, allSubscriptionsWaitGroup, activeSubscriptions,
          activeSubscriptionsLock, clients, clientClosed, call, stream, env, closer, panics>>

Calls == DOMAIN call
Closers == DOMAIN closer
Envelopes == 1..MaxEnvelopes

\* pc of a call: "idle", "rlock", "lock", "locked", "resolved", "adding", "returned", "done",
\* "panicked";
\* closedAtStart, invokedAtStart, afterClose: when it started, the closed flag was
\* set, a Close call had been invoked, a Close call had returned;
\* log: the remote calls its resolution issued; fault: the remote call that failed;
\* remoteAt, cacheAt: the remote service and the cache as its resolution found them;
\* hit: it was served from the cache; wrote: it wrote the cache; boundTo: the topic
\* its subscription name is bound to on the remote service once it is over;
\* remoteAfter: the remote service as its resolution left it
IdleCall ==
    [pc |-> "idle", kind |-> "", topic |-> "", name |-> "", sub |-> NoSub, err |-> ErrNil,
     log |-> <<>>, client |-> 0, closedAtStart |-> FALSE, afterClose |-> FALSE, prior |-> {},
     invokedAtStart |-> FALSE,
     fault |-> "none", remoteAt |-> EmptyRemote, cacheAt |-> [n \in {} |-> NoSub],
     hit |-> FALSE, wrote |-> FALSE, boundTo |-> "", remoteAfter |-> EmptyRemote]

\* attempts: the failed Receive calls so far, counted up to MaxRetries;
\* pc of the retry goroutine: "none", "receiving", "stopping", "backoff", "finished",
\* "outputClosed", "releasing", "storing", "signalling", "exited"; output: "none",
\* "open", "closed"
IdleStream ==
    [ctxDone |-> FALSE, relay |-> "none", pc |-> "none", result |-> ErrNil,
     attempts |-> 0, output |-> "none"]

\* pc of a callback: "none", "offer", "await", "done"; app: what the application did
\* with the message; ack, nack: the upstream calls issued; by: the case that ended
\* it; ackedBefore: the application acknowledged before any Close call and before
\* the message's context was done; raced: the closing channel was closed or the
\* context done when the callback ended; attempt: the failed Receive calls before
\* the one it belongs to
IdleEnvelope ==
    [pc |-> "none", delivered |-> FALSE, app |-> "none", ack |-> 0, nack |-> 0,
     by |-> "", ackedBefore |-> FALSE, raced |-> FALSE, attempt |-> 0,
     sentAfterClose |-> {}]

IdleCloser ==
    [pc |-> "idle", ret |-> "", seen |-> {}, clients |-> <<>>, failing |-> {},
     attempted |-> <<>>, errors |-> <<>>]

InitWith(nCalls, nClosers, configs, remotes) ==
    /\ config \in configs
    /\ remote \in remotes
    /\ closed = FALSE
    /\ closing = "open"
    /\ allSubscriptionsWaitGroup = 0
    /\ activeSubscriptions = [n \in {} |-> NoSub]
    /\ activeSubscriptionsLock = 0
    /\ clients = <<>>
    /\ clientClosed = {}
    /\ call = [c \in 1..nCalls |-> IdleCall]
    /\ stream = [c \in 1..nCalls |-> IdleStream]
    /\ env = [c \in 1..nCalls |-> [e \in Envelopes |-> IdleEnvelope]]
    /\ closer = [k \in 1..nClosers |-> IdleCloser]
    /\ panics = {}

\* func (s *Subscriber) getClosed() bool
getClosed == closed

\* the resolution of call c is over: s.subscription has returned, to a Subscribe
\* call that is before, inside or past its Add(1) of line 195 (which may have
\* panicked), or the call has returned
ResolutionOver(c) ==
    call[c].pc \in {"resolved", "adding", "panicked", "returned", "done"}

\* a resolution that has returned a handle
Resolved(c) == ResolutionOver(c) /\ call[c].err = ErrNil /\ call[c].sub # NoSub

(***************************************************************************)
(* Subscribe and SubscribeInitialize.  Calls are numbered in the order     *)
(* they start.                                                             *)
(***************************************************************************)
MayStart(c) == call[c].pc = "idle" /\ \A d \in Calls : d < c => call[d].pc # "idle"

\* the handles that resolutions of this name have returned so far
PriorHandles(name) == {call[d].sub : d \in {x \in Calls : Resolved(x) /\ call[x].name = name}}

Started(c, kind, topic) ==
    [call[c] EXCEPT !.kind = kind, !.topic = topic,
                    !.name = GenerateSubscriptionName(config, topic),
                    !.closedAtStart = closed,
                    !.invokedAtStart = \E k \in Closers : closer[k].pc # "idle",
                    !.afterClose = \E k \in Closers :
                                       closer[k].pc \in {"returned", "returnedEarly"},
                    !.prior = PriorHandles(GenerateSubscriptionName(config, topic))]

\* Mutant of SubscribeStart: Subscribe does not look at the closed flag.
SubscribeStartUnchecked(c, topic) ==
    /\ MayStart(c)
    /\ call' = [call EXCEPT ![c] = [Started(c, "Subscribe", topic) EXCEPT !.pc = "rlock"]]
    /\ UNCHANGED <<config, remote, closed, closing, allSubscriptionsWaitGroup,
                   activeSubscriptions, activeSubscriptionsLock, clients, clientClosed,
                   stream, env, closer, panics>>

\* Subscribe, lines 172-174 and 176-186
SubscribeStart(c, topic) ==
    /\ MayStart(c)
    /\ call' = [call EXCEPT ![c] =
                  IF getClosed
                  THEN [Started(c, "Subscribe", topic) EXCEPT !.pc = "done",
                                                              !.err = ErrSubscriberClosed]
                  ELSE [Started(c, "Subscribe", topic) EXCEPT !.pc = "rlock"]]
    /\ UNCHANGED <<config, remote, closed, closing, allSubscriptionsWaitGroup,
                   activeSubscriptions, activeSubscriptionsLock, clients, clientClosed,
                   stream, env, closer, panics>>

\* SubscribeInitialize, lines 237-246
InitializeStart(c, topic) ==
    /\ MayStart(c)
    /\ call' = [call EXCEPT ![c] = [Started(c, "SubscribeInitialize", topic) EXCEPT !.pc = "rlock"]]
    /\ UNCHANGED <<config, remote, closed, closing, allSubscriptionsWaitGroup,
                   activeSubscriptions, activeSubscriptionsLock, clients, clientClosed,
                   stream, env, closer, panics>>

\* where a call goes once its resolution has returned
AfterResolution(c, err) ==
    IF err # ErrNil \/ call[c].kind = "SubscribeInitialize" THEN "done" ELSE "resolved"

\* subscription, lines 357-362: the cache read under the read lock
CacheRead(c) ==
    /\ call[c].pc = "rlock"
    /\ activeSubscriptionsLock = 0
    /\ call' = [call EXCEPT ![c] =
                  IF call[c].name \in DOMAIN activeSubscriptions
                  THEN [@ EXCEPT !.sub = activeSubscriptions[call[c].name],
                                 !.pc = AfterResolution(c, ErrNil),
                                 !.hit = TRUE, !.remoteAt = remote,
                                 !.cacheAt = activeSubscriptions]
                  ELSE [@ EXCEPT !.pc = "lock"]]
    /\ UNCHANGED <<config, remote, closed, closing, allSubscriptionsWaitGroup,
                   activeSubscriptions, activeSubscriptionsLock, clients, clientClosed,
                   stream, env, closer, panics>>

\* subscription, lines 364-375, and newClient: the exclusive lock is taken and a
\* client is opened and appended to s.clients; ok is whether pubsub.NewClient succeeds
LockAndNewClient(c, ok) ==
    /\ call[c].pc = "lock"
    /\ activeSubscriptionsLock = 0
    /\ IF ok
       THEN /\ clients' = Append(clients, Len(clients) + 1)
            /\ activeSubscriptionsLock' = c
            /\ call' = [call EXCEPT ![c].pc = "locked", ![c].client = Len(clients) + 1]
       ELSE /\ call' = [call EXCEPT ![c].pc = "done", ![c].err = ErrRemote("newClient")]
            /\ UNCHANGED <<clients, activeSubscriptionsLock>>
    /\ UNCHANGED <<config, remote, closed, closing, allSubscriptionsWaitGroup,
                   activeSubscriptions, clientClosed, stream, env, closer, panics>>

\* Mutant of CacheWrite: the deferred function does not look at err.
CacheWriteAlways(cache, name, r) ==
    [n \in (DOMAIN cache) \cup {name} |-> IF n = name THEN r.sub ELSE cache[n]]

\* subscription, lines 366-370: the deferred cache write
CacheWrite(cache, name, r) ==
    IF r.err = ErrNil
    THEN [n \in (DOMAIN cache) \cup {name} |-> IF n = name THEN r.sub ELSE cache[n]]
    ELSE cache

\* the topic a subscription name is bound to on the remote service
BoundTopic(rem, name) == IF SubExists(rem, name) THEN rem.subs[name].Topic ELSE ""

\* the fault a resolution met: "none" when the failing call was not issued
EffectiveFault(c, fault, peer) ==
    IF subscriptionLocked(remote, config, call[c].client, call[c].name, call[c].topic, fault,
                          peer)
         = subscriptionLocked(remote, config, call[c].client, call[c].name, call[c].topic,
                              "none", peer)
    THEN "none" ELSE fault

\* subscription, lines 377-398 with the deferred cache write and unlock
Resolve(c, fault, peer) ==
    /\ call[c].pc = "locked"
    /\ LET r == subscriptionLocked(remote, config, call[c].client, call[c].name,
                                   call[c].topic, fault, peer)
       IN  /\ remote' = r.remote
           /\ activeSubscriptions' = CacheWrite(activeSubscriptions, call[c].name, r)
           /\ call' = [call EXCEPT ![c].sub = r.sub, ![c].err = r.err, ![c].log = r.log,
                                   ![c].pc = AfterResolution(c, r.err),
                                   ![c].fault = EffectiveFault(c, fault, peer),
                                   ![c].remoteAt = remote,
                                   ![c].cacheAt = activeSubscriptions,
                                   ![c].wrote = (r.err = ErrNil),
                                   ![c].boundTo = BoundTopic(r.remote, call[c].name),
                                   ![c].remoteAfter = r.remote]
    /\ activeSubscriptionsLock' = 0
    /\ UNCHANGED <<config, closed, closing, allSubscriptionsWaitGroup, clients,
                   clientClosed, stream, env, closer, panics>>

\* the Close calls blocked in s.allSubscriptionsWaitGroup.Wait() (line 264): the
\* waiters of the WaitGroup
Waiters == {k \in Closers : closer[k].pc = "waiting"}

\* lines 196-233: the three goroutines of a stream are spawned
Goroutines(st) == [st EXCEPT !.pc = "receiving", !.relay = "waiting", !.output = "open"]

\* Subscribe, lines 194-233: the counter is incremented, the three goroutines are
\* spawned and the output channel is returned.  Add(1) stores the incremented
\* counter and then panics when the counter is negative, or when it took the
\* counter from zero while waiters are registered (which it can only find between
\* the decrement of a Done() and its reset of the waiters); the Subscribe call then
\* ends in the panic.  An Add(1) that brings a negative counter to zero while Close
\* calls wait has yet to check, reset and release, as a Done() does.
Spawn(c) ==
    /\ call[c].pc = "resolved"
    /\ allSubscriptionsWaitGroup' = allSubscriptionsWaitGroup + 1
    /\ CASE allSubscriptionsWaitGroup + 1 < 0 ->
              /\ panics' = panics \cup {"negative WaitGroup counter"}
              /\ call' = [call EXCEPT ![c].pc = "panicked"]
              /\ UNCHANGED stream
         [] allSubscriptionsWaitGroup + 1 = 1 /\ Waiters # {} ->
              /\ panics' = panics \cup {"WaitGroup misuse: Add called concurrently with Wait"}
              /\ call' = [call EXCEPT ![c].pc = "panicked"]
              /\ UNCHANGED stream
         [] allSubscriptionsWaitGroup + 1 = 0 /\ Waiters # {} ->
              /\ call' = [call EXCEPT ![c].pc = "adding"]
              /\ stream' = [stream EXCEPT ![c].pc = "releasing"]
              /\ UNCHANGED panics
         [] OTHER ->
              /\ stream' = [stream EXCEPT ![c] = Goroutines(@)]
              /\ call' = [call EXCEPT ![c].pc = "returned"]
              /\ UNCHANGED panics
    /\ UNCHANGED <<config, remote, closed, closing, activeSubscriptions,
                   activeSubscriptionsLock, clients, clientClosed, env, closer>>

(***************************************************************************)
(* The goroutines of a stream (Subscribe, lines 196-231).                  *)
(***************************************************************************)
\* lines 221-225: the goroutine that turns the closing signal into cancel()
Relay(c) ==
    /\ stream[c].relay = "waiting"
    /\ closing = "closed"
    /\ stream' = [stream EXCEPT ![c].relay = "done", ![c].ctxDone = TRUE]
    /\ UNCHANGED <<config, remote, closed, closing, allSubscriptionsWaitGroup,
                   activeSubscriptions, activeSubscriptionsLock, clients, clientClosed,
                   call, env, closer, panics>>

\* the caller cancels the context it passed to Subscribe (line 176 derives from it)
CallerCancel(c) ==
    /\ stream[c].pc \in {"receiving", "stopping", "backoff"}
    /\ ~stream[c].ctxDone
    /\ stream' = [stream EXCEPT ![c].ctxDone = TRUE]
    /\ UNCHANGED <<config, remote, closed, closing, allSubscriptionsWaitGroup,
                   activeSubscriptions, activeSubscriptionsLock, clients, clientClosed,
                   call, env, closer, panics>>

\* the context a callback of sub.Receive runs under: done when the stream's context
\* is done or when Receive is stopping
MsgCtxDone(c) == stream[c].ctxDone \/ stream[c].pc = "stopping"

Active(c) == {e \in Envelopes : env[c][e].pc \in {"offer", "await"}}

\* sub.Receive (line 291) stops: with nil once its context is done, or with a
\* transport error, at any time and any number of times; it starts no callback
\* from then on
ReceiveStop(c, result) ==
    /\ stream[c].pc = "receiving"
    /\ result = ErrNil => stream[c].ctxDone
    /\ stream' = [stream EXCEPT ![c].pc = "stopping", ![c].result = result]
    /\ UNCHANGED <<config, remote, closed, closing, allSubscriptionsWaitGroup,
                   activeSubscriptions, activeSubscriptionsLock, clients, clientClosed,
                   call, env, closer, panics>>

\* Mutant of RetryDecision: the retried function does not look at the shutdown flag.
RetryDecisionIgnoresClosed(result) ==
    IF result = ErrNil THEN "finished" ELSE "backoff"

\* lines 200-214: what the retried function does with the result of s.receive
RetryDecision(result) ==
    IF result = ErrNil THEN "finished"
    ELSE IF getClosed THEN "finished"
    ELSE "backoff"

\* the number of failed Receive calls after one more, counted up to MaxRetries
OneMoreAttempt(n) == IF n < MaxRetries THEN n + 1 ELSE n

\* sub.Receive returns once every callback has returned; lines 200-218
ReceiveReturn(c) ==
    /\ stream[c].pc = "stopping"
    /\ Active(c) = {}
    /\ stream' = [stream EXCEPT ![c].pc = RetryDecision(stream[c].result),
                                ![c].attempts = IF stream[c].result = ErrNil THEN @
                                                ELSE OneMoreAttempt(@)]
    /\ UNCHANGED <<config, remote, closed, closing, allSubscriptionsWaitGroup,
                   activeSubscriptions, activeSubscriptionsLock, clients, clientClosed,
                   call, env, closer, panics>>

\* backoff.Retry calls s.receive again after the back-off (line 201)
Retry(c) ==
    /\ stream[c].pc = "backoff"
    /\ stream' = [stream EXCEPT ![c].pc = "receiving"]
    /\ UNCHANGED <<config, remote, closed, closing, allSubscriptionsWaitGroup,
                   activeSubscriptions, activeSubscriptionsLock, clients, clientClosed,
                   call, env, closer, panics>>

\* lines 227-229: <-receiveFinished; close(output)
CloseOutput(c) ==
    /\ stream[c].pc = "finished"
    /\ stream' = [stream EXCEPT ![c].pc = "outputClosed", ![c].output = "closed"]
    /\ panics' = IF stream[c].output = "closed" THEN panics \cup {"close of closed channel"}
                 ELSE panics
    /\ UNCHANGED <<config, remote, closed, closing, allSubscriptionsWaitGroup,
                   activeSubscriptions, activeSubscriptionsLock, clients, clientClosed,
                   call, env, closer>>

\* line 230: s.allSubscriptionsWaitGroup.Done(), the decrement of the counter,
\* which is stored before Done() panics on a negative counter; a Done() that brings
\* the counter to zero while Close calls wait has yet to check, reset and release
Done(c) ==
    /\ stream[c].pc = "outputClosed"
    /\ stream' = [stream EXCEPT ![c].pc =
                     IF allSubscriptionsWaitGroup = 1 /\ Waiters # {} THEN "releasing"
                     ELSE "exited"]
    /\ allSubscriptionsWaitGroup' = allSubscriptionsWaitGroup - 1
    /\ panics' = IF allSubscriptionsWaitGroup - 1 < 0
                 THEN panics \cup {"negative WaitGroup counter"}
                 ELSE panics
    /\ UNCHANGED <<config, remote, closed, closing, activeSubscriptions,
                   activeSubscriptionsLock, clients, clientClosed, call, env, closer>>

\* line 230, inside the Done() that brought the counter to zero with waiters
\* registered: it loads the counter again and panics if an Add has changed it
DoneCheck(c) ==
    /\ stream[c].pc = "releasing"
    /\ IF allSubscriptionsWaitGroup # 0
       THEN /\ panics' = panics \cup {"WaitGroup misuse: Add called concurrently with Wait"}
            /\ stream' = [stream EXCEPT ![c].pc = IF call[c].pc = "adding" THEN "none"
                                                  ELSE "exited"]
            /\ call' = [call EXCEPT ![c].pc = IF @ = "adding" THEN "panicked" ELSE @]
       ELSE /\ stream' = [stream EXCEPT ![c].pc = "storing"]
            /\ UNCHANGED <<panics, call>>
    /\ UNCHANGED <<config, remote, closed, closing, allSubscriptionsWaitGroup,
                   activeSubscriptions, activeSubscriptionsLock, clients, clientClosed,
                   env, closer>>

\* line 230, inside Done(): it then resets the counter and the number of waiters to
\* zero, whatever an Add has added since the check; the waiters stay blocked, no
\* longer registered
DoneStore(c) ==
    /\ stream[c].pc = "storing"
    /\ stream' = [stream EXCEPT ![c].pc = "signalling"]
    /\ allSubscriptionsWaitGroup' = 0
    /\ closer' = [k \in Closers |->
                     IF k \in Waiters THEN [closer[k] EXCEPT !.pc = "parked"]
                     ELSE closer[k]]
    /\ UNCHANGED <<config, remote, closed, closing, activeSubscriptions,
                   activeSubscriptionsLock, clients, clientClosed, call, env, panics>>

\* line 230, the end of Done(): it releases the waiters it found (at most one Close
\* call reaches Wait(): the others return at line 259 or panic at line 263).  The
\* Add(1) of line 195 that went the same way returns and Subscribe goes on.
DoneRelease(c) ==
    /\ stream[c].pc = "signalling"
    /\ stream' = [stream EXCEPT ![c] = IF call[c].pc = "adding" THEN Goroutines(@)
                                       ELSE [@ EXCEPT !.pc = "exited"]]
    /\ call' = [call EXCEPT ![c].pc = IF @ = "adding" THEN "returned" ELSE @]
    /\ closer' = [k \in Closers |->
                     IF closer[k].pc = "parked" THEN [closer[k] EXCEPT !.pc = "woken"]
                     ELSE closer[k]]
    /\ UNCHANGED <<config, remote, closed, closing, allSubscriptionsWaitGroup,
                   activeSubscriptions, activeSubscriptionsLock, clients, clientClosed,
                   env, panics>>

(***************************************************************************)
(* The callback of receive (lines 291-351), one per envelope.              *)
(***************************************************************************)
\* Mutant of Nack: the callback does not return after pubsubMsg.Nack().
NackNoReturn(m, by) == [m EXCEPT !.nack = @ + 1, !.by = by]

\* pubsubMsg.Nack() and pubsubMsg.Ack(), and the return of the callback
Nack(m, by) == [m EXCEPT !.nack = @ + 1, !.pc = "done", !.by = by]
Ack(m, by) == [m EXCEPT !.ack = @ + 1, !.pc = "done", !.by = by]

\* what a callback can see when its select runs
Raced(c) == closing = "closed" \/ MsgCtxDone(c)

EnvStep(c, e, m) ==
    /\ env' = [env EXCEPT ![c][e] = m]
    /\ UNCHANGED <<config, remote, closed, closing, allSubscriptionsWaitGroup,
                   activeSubscriptions, activeSubscriptionsLock, clients, clientClosed,
                   call, stream, closer>>

\* Mutant of Deliver: a decode failure makes sub.Receive stop with an error.
DeliverStopsOnDecodeFailure(c, e, ok) ==
    /\ stream[c].pc = "receiving"
    /\ env[c][e].pc = "none"
    /\ \A f \in Envelopes : f < e => env[c][f].pc # "none"
    /\ env' = [env EXCEPT ![c][e] =
                 IF ok THEN [env[c][e] EXCEPT !.pc = "offer", !.attempt = stream[c].attempts]
                 ELSE Nack([env[c][e] EXCEPT !.attempt = stream[c].attempts], "decode")]
    /\ stream' = IF ok THEN stream
                 ELSE [stream EXCEPT ![c].pc = "stopping", ![c].result = "error"]
    /\ UNCHANGED <<config, remote, closed, closing, allSubscriptionsWaitGroup,
                   activeSubscriptions, activeSubscriptionsLock, clients, clientClosed,
                   call, closer, panics>>

\* the transport hands the next envelope to a callback; lines 292-304: ok is
\* whether Unmarshal succeeds
Deliver(c, e, ok) ==
    /\ stream[c].pc = "receiving"
    /\ env[c][e].pc = "none"
    /\ \A f \in Envelopes : f < e => env[c][f].pc # "none"
    /\ EnvStep(c, e, IF ok THEN [env[c][e] EXCEPT !.pc = "offer", !.attempt = stream[c].attempts]
                     ELSE Nack([env[c][e] EXCEPT !.attempt = stream[c].attempts], "decode"))
    /\ UNCHANGED panics

\* the Close calls that have returned and had seen the Subscribe call of stream c
\* return before they started
ReturnedClosers(c) ==
    {k \in Closers : closer[k].pc \in {"returned", "returnedEarly"} /\ c \in closer[k].seen}

\* the first select, lines 306-323
OfferClosing(c, e) ==
    /\ env[c][e].pc = "offer"
    /\ closing = "closed"
    /\ EnvStep(c, e, Nack(env[c][e], "offerClosing"))
    /\ UNCHANGED panics

OfferCtxDone(c, e) ==
    /\ env[c][e].pc = "offer"
    /\ MsgCtxDone(c)
    /\ EnvStep(c, e, Nack(env[c][e], "offerCtxDone"))
    /\ UNCHANGED panics

\* Mutant of OfferSend: the callback stays in its first select after the send.
OfferSendStays(c, e) ==
    /\ env[c][e].pc = "offer"
    /\ EnvStep(c, e, [env[c][e] EXCEPT !.delivered = TRUE,
                                       !.sentAfterClose = ReturnedClosers(c)])
    /\ UNCHANGED panics

\* output <- msg with the application receiving; a send on a closed channel panics
OfferSend(c, e) ==
    /\ env[c][e].pc = "offer"
    /\ IF stream[c].output = "closed"
       THEN /\ panics' = panics \cup {"send on closed channel"}
            /\ EnvStep(c, e, [env[c][e] EXCEPT !.pc = "done", !.by = "panic"])
       ELSE /\ EnvStep(c, e, [env[c][e] EXCEPT !.pc = "await", !.delivered = TRUE,
                                               !.sentAfterClose = ReturnedClosers(c)])
            /\ UNCHANGED panics

\* the application calls msg.Ack() or msg.Nack() on a message it received
AppAck(c, e) ==
    /\ env[c][e].pc = "await"
    /\ env[c][e].app = "none"
    /\ EnvStep(c, e, [env[c][e] EXCEPT !.app = "acked",
                         !.ackedBefore = (\A k \in Closers : closer[k].pc = "idle")
                                            /\ ~MsgCtxDone(c)])
    /\ UNCHANGED panics

AppNack(c, e) ==
    /\ env[c][e].pc = "await"
    /\ env[c][e].app = "none"
    /\ EnvStep(c, e, [env[c][e] EXCEPT !.app = "nacked"])
    /\ UNCHANGED panics

\* the second select, lines 325-350
AwaitClosing(c, e) ==
    /\ env[c][e].pc = "await"
    /\ closing = "closed"
    /\ EnvStep(c, e, Nack([env[c][e] EXCEPT !.raced = Raced(c)], "awaitClosing"))
    /\ UNCHANGED panics

\* Mutant of AwaitCtxDone: the second select has no ctx.Done() case.
AwaitCtxDoneMissing(c, e) ==
    /\ FALSE
    /\ UNCHANGED vars

AwaitCtxDone(c, e) ==
    /\ env[c][e].pc = "await"
    /\ MsgCtxDone(c)
    /\ EnvStep(c, e, Nack([env[c][e] EXCEPT !.raced = Raced(c)], "awaitCtxDone"))
    /\ UNCHANGED panics

\* Mutant of AwaitAcked: the msg.Acked() case calls pubsubMsg.Nack().
AwaitAckedNacks(c, e) ==
    /\ env[c][e].pc = "await"
    /\ env[c][e].app = "acked"
    /\ EnvStep(c, e, Nack([env[c][e] EXCEPT !.raced = Raced(c)], "acked"))
    /\ UNCHANGED panics

AwaitAcked(c, e) ==
    /\ env[c][e].pc = "await"
    /\ env[c][e].app = "acked"
    /\ EnvStep(c, e, Ack([env[c][e] EXCEPT !.raced = Raced(c)], "acked"))
    /\ UNCHANGED panics

\* Mutant of AwaitNacked: the msg.Nacked() case calls pubsubMsg.Ack().
AwaitNackedAcks(c, e) ==
    /\ env[c][e].pc = "await"
    /\ env[c][e].app = "nacked"
    /\ EnvStep(c, e, Ack([env[c][e] EXCEPT !.raced = Raced(c)], "nacked"))
    /\ UNCHANGED panics

AwaitNacked(c, e) ==
    /\ env[c][e].pc = "await"
    /\ env[c][e].app = "nacked"
    /\ EnvStep(c, e, Nack([env[c][e] EXCEPT !.raced = Raced(c)], "nacked"))
    /\ UNCHANGED panics

(***************************************************************************)
(* Close (lines 257-283).  Calls are numbered in the order they start.     *)
(***************************************************************************)
\* lines 258-260
CloseStart(k) ==
    /\ closer[k].pc = "idle"
    /\ \A j \in Closers : j < k => closer[j].pc # "idle"
    /\ closer' = [closer EXCEPT ![k].pc = IF getClosed THEN "returnedEarly" ELSE "setClosed",
                                ![k].ret = IF getClosed THEN ErrNil ELSE "",
                                ![k].seen = {c \in Calls : call[c].pc = "returned"}]
    /\ UNCHANGED <<config, remote, closed, closing, allSubscriptionsWaitGroup,
                   activeSubscriptions, activeSubscriptionsLock, clients, clientClosed,
                   call, stream, env, panics>>

\* line 262: s.setClosed(true)
CloseSetClosed(k) ==
    /\ closer[k].pc = "setClosed"
    /\ closed' = TRUE
    /\ closer' = [closer EXCEPT ![k].pc = "closeClosing"]
    /\ UNCHANGED <<config, remote, closing, allSubscriptionsWaitGroup,
                   activeSubscriptions, activeSubscriptionsLock, clients, clientClosed,
                   call, stream, env, panics>>

\* line 263: close(s.closing); closing a closed channel panics
CloseClosing(k) ==
    /\ closer[k].pc = "closeClosing"
    /\ IF closing = "closed"
       THEN /\ closer' = [closer EXCEPT ![k].pc = "panicked"]
            /\ panics' = panics \cup {"close of closed channel"}
            /\ UNCHANGED closing
       ELSE /\ closer' = [closer EXCEPT ![k].pc = "wait"]
            /\ closing' = "closed"
            /\ UNCHANGED panics
    /\ UNCHANGED <<config, remote, closed, allSubscriptionsWaitGroup,
                   activeSubscriptions, activeSubscriptionsLock, clients, clientClosed,
                   call, stream, env>>

\* Mutant of CloseWait: Close does not wait for the streams to end.
CloseWaitSkipped(k) ==
    /\ closer[k].pc = "wait"
    /\ closer' = [closer EXCEPT ![k].pc = "release"]
    /\ UNCHANGED <<config, remote, closed, closing, allSubscriptionsWaitGroup,
                   activeSubscriptions, activeSubscriptionsLock, clients, clientClosed,
                   call, stream, env, panics>>

\* line 264: s.allSubscriptionsWaitGroup.Wait() returns at once when the counter
\* is zero and registers the call as a waiter otherwise (a negative counter
\* included)
CloseWait(k) ==
    /\ closer[k].pc = "wait"
    /\ closer' = [closer EXCEPT ![k].pc = IF allSubscriptionsWaitGroup = 0 THEN "release"
                                          ELSE "waiting"]
    /\ UNCHANGED <<config, remote, closed, closing, allSubscriptionsWaitGroup,
                   activeSubscriptions, activeSubscriptionsLock, clients, clientClosed,
                   call, stream, env, panics>>

\* line 264: a waiter released by Done() resumes; it does not wait again, and
\* panics if the counter is not zero: an Add has incremented it, or a Done() has
\* made it negative, since the waiter was released
CloseWake(k) ==
    /\ closer[k].pc = "woken"
    /\ IF allSubscriptionsWaitGroup # 0
       THEN /\ closer' = [closer EXCEPT ![k].pc = "panicked"]
            /\ panics' = panics \cup {"WaitGroup is reused before previous Wait has returned"}
       ELSE /\ closer' = [closer EXCEPT ![k].pc = "release"]
            /\ UNCHANGED panics
    /\ UNCHANGED <<config, remote, closed, closing, allSubscriptionsWaitGroup,
                   activeSubscriptions, activeSubscriptionsLock, clients, clientClosed,
                   call, stream, env>>

\* lines 269-275: the loop over s.clients; failing are the clients whose Close()
\* returns an error.  Yields the clients Close() was called on and the errors
\* appended to the multierror, both in order.
\* Mutant of CloseClients: the loop stops at the first client whose Close() fails.
RECURSIVE CloseClientsStopAtFailure(_, _)
CloseClientsStopAtFailure(cs, failing) ==
    IF cs = <<>> THEN [attempted |-> <<>>, errors |-> <<>>]
    ELSE IF Head(cs) \in failing THEN [attempted |-> <<Head(cs)>>, errors |-> <<Head(cs)>>]
    ELSE LET rest == CloseClientsStopAtFailure(Tail(cs), failing)
         IN  [attempted |-> <<Head(cs)>> \o rest.attempted, errors |-> rest.errors]

RECURSIVE CloseClients(_, _)
CloseClients(cs, failing) ==
    IF cs = <<>> THEN [attempted |-> <<>>, errors |-> <<>>]
    ELSE LET rest == CloseClients(Tail(cs), failing)
         IN  [attempted |-> <<Head(cs)>> \o rest.attempted,
              errors |-> IF Head(cs) \in failing THEN <<Head(cs)>> \o rest.errors
                         ELSE rest.errors]

\* lines 276-282
CloseResult(errors) == IF errors # <<>> THEN "error" ELSE ErrNil

\* lines 266-283, under s.clientsLock
CloseRelease(k, failing) ==
    /\ closer[k].pc = "release"
    /\ LET r == CloseClients(clients, failing)
       IN  /\ clientClosed' = clientClosed \cup Range(r.attempted)
           /\ closer' = [closer EXCEPT ![k].pc = "returned", ![k].clients = clients,
                                       ![k].failing = failing,
                                       ![k].attempted = r.attempted,
                                       ![k].errors = r.errors,
                                       ![k].ret = CloseResult(r.errors)]
    /\ UNCHANGED <<config, remote, closed, closing, allSubscriptionsWaitGroup,
                   activeSubscriptions, activeSubscriptionsLock, clients,
                   call, stream, env, panics>>

(***************************************************************************)
(* Specifications.                                                         *)
(***************************************************************************)
\* Spec: one stream and its envelopes, from Subscribe to Close, under every
\* interleaving with the application, the caller's cancellation, the transport
\* and a Close call.
Init == InitWith(1, 1, {DefaultConfig}, {EmptyRemote})

\* the steps a callback takes by itself: the cases of its two selects other than
\* the send on output, which needs the application to receive
CallbackStep(c, e) ==
    \/ OfferClosing(c, e)
    \/ OfferCtxDone(c, e)
    \/ AwaitClosing(c, e)
    \/ AwaitCtxDone(c, e)
    \/ AwaitAcked(c, e)
    \/ AwaitNacked(c, e)

\* the steps of a Close call once the caller has made it
CloseStep(k) ==
    \/ CloseSetClosed(k)
    \/ CloseClosing(k)
    \/ CloseWait(k)
    \/ CloseWake(k)
    \/ CloseRelease(k, {})

Next ==
    \/ \E c \in Calls : SubscribeStart(c, "t1")
    \/ \E c \in Calls : CacheRead(c)
    \/ \E c \in Calls, ok \in BOOLEAN : LockAndNewClient(c, ok)
    \/ \E c \in Calls, fault \in {"none", "subExists"} : Resolve(c, fault, NoPeer)
    \/ \E c \in Calls : Spawn(c)
    \/ \E c \in Calls : Relay(c)
    \/ \E c \in Calls : CallerCancel(c)
    \/ \E c \in Calls, result \in {ErrNil, "error"} : ReceiveStop(c, result)
    \/ \E c \in Calls : ReceiveReturn(c)
    \/ \E c \in Calls : Retry(c)
    \/ \E c \in Calls : CloseOutput(c)
    \/ \E c \in Calls : Done(c)
    \/ \E c \in Calls : DoneCheck(c)
    \/ \E c \in Calls : DoneStore(c)
    \/ \E c \in Calls : DoneRelease(c)
    \/ \E c \in Calls, e \in Envelopes, ok \in BOOLEAN : Deliver(c, e, ok)
    \/ \E c \in Calls, e \in Envelopes : OfferClosing(c, e)
    \/ \E c \in Calls, e \in Envelopes : OfferCtxDone(c, e)
    \/ \E c \in Calls, e \in Envelopes : OfferSend(c, e)
    \/ \E c \in Calls, e \in Envelopes : AppAck(c, e)
    \/ \E c \in Calls, e \in Envelopes : AppNack(c, e)
    \/ \E c \in Calls, e \in Envelopes : AwaitClosing(c, e)
    \/ \E c \in Calls, e \in Envelopes : AwaitCtxDone(c, e)
    \/ \E c \in Calls, e \in Envelopes : AwaitAcked(c, e)
    \/ \E c \in Calls, e \in Envelopes : AwaitNacked(c, e)
    \/ \E k \in Closers : CloseStart(k)
    \/ \E k \in Closers : CloseSetClosed(k)
    \/ \E k \in Closers : CloseClosing(k)
    \/ \E k \in Closers : CloseWait(k)
    \/ \E k \in Closers : CloseWake(k)
    \/ \E k \in Closers : CloseRelease(k, {})

Spec == Init /\ [][Next]_vars

\* FairSpec: Spec with every goroutine of the Subscriber scheduled fairly: the
\* callbacks, the goroutines of the stream and a Close call that was made;
\* sub.Receive returns once its context is done.  The application, the callers of
\* Subscribe and Close, the transport's deliveries and its errors are under no
\* obligation.
Fairness ==
    /\ \A e \in Envelopes : WF_vars(CallbackStep(1, e))
    /\ WF_vars(Relay(1))
    /\ WF_vars(ReceiveStop(1, ErrNil))
    /\ WF_vars(ReceiveReturn(1))
    /\ WF_vars(Retry(1))
    /\ WF_vars(CloseOutput(1))
    /\ WF_vars(Done(1))
    /\ WF_vars(DoneCheck(1))
    /\ WF_vars(DoneStore(1))
    /\ WF_vars(DoneRelease(1))
    /\ WF_vars(CloseStep(1))

FairSpec == Spec /\ Fairness

\* SpecClose: NumCalls Subscribe and SubscribeInitialize calls and NumClosers
\* concurrent Close calls.  The topics being interchangeable here, the first call
\* names "t1".  The transport delivers one envelope, which decodes, to the stream
\* of the first call, and returns no error.
InitClose == InitWith(NumCalls, NumClosers, {DefaultConfig}, {EmptyRemote})

CloseTopics(c) == IF c = 1 THEN {"t1"} ELSE Topics

NextClose ==
    \/ \E c \in Calls : \E topic \in CloseTopics(c) : SubscribeStart(c, topic)
    \/ \E c \in Calls : \E topic \in CloseTopics(c) : InitializeStart(c, topic)
    \/ \E c \in Calls : CacheRead(c)
    \/ \E c \in Calls : LockAndNewClient(c, TRUE)
    \/ \E c \in Calls : Resolve(c, "none", NoPeer)
    \/ \E c \in Calls : Spawn(c)
    \/ \E c \in Calls : Relay(c)
    \/ \E c \in Calls : ReceiveStop(c, ErrNil)
    \/ \E c \in Calls : ReceiveReturn(c)
    \/ \E c \in Calls : CloseOutput(c)
    \/ \E c \in Calls : Done(c)
    \/ \E c \in Calls : DoneCheck(c)
    \/ \E c \in Calls : DoneStore(c)
    \/ \E c \in Calls : DoneRelease(c)
    \/ Deliver(1, 1, TRUE)
    \/ OfferClosing(1, 1)
    \/ OfferCtxDone(1, 1)
    \/ OfferSend(1, 1)
    \/ AwaitClosing(1, 1)
    \/ AwaitCtxDone(1, 1)
    \/ \E k \in Closers : CloseStart(k)
    \/ \E k \in Closers : CloseSetClosed(k)
    \/ \E k \in Closers : CloseClosing(k)
    \/ \E k \in Closers : CloseWait(k)
    \/ \E k \in Closers : CloseWake(k)
    \/ \E k \in Closers : \E failing \in SUBSET Range(clients) : CloseRelease(k, failing)

SpecClose == InitClose /\ [][NextClose]_vars

\* SpecRace: NumRacers concurrent Subscribe calls of one topic and one Close call;
\* the transport delivers nothing and returns no error.
InitRace == InitWith(NumRacers, 1, {DefaultConfig}, {EmptyRemote})

\* the steps of a Subscribe call once the caller has made it
SubscribeStep(c) ==
    \/ CacheRead(c)
    \/ LockAndNewClient(c, TRUE)
    \/ Resolve(c, "none", NoPeer)
    \/ Spawn(c)

\* the steps of the goroutines of a stream, sub.Receive returning nil once its
\* context is done
StreamGoroutineStep(c) ==
    \/ Relay(c)
    \/ ReceiveStop(c, ErrNil)
    \/ ReceiveReturn(c)
    \/ CloseOutput(c)
    \/ Done(c)
    \/ DoneCheck(c)
    \/ DoneStore(c)
    \/ DoneRelease(c)

NextRace ==
    \/ \E c \in Calls : SubscribeStart(c, "t1")
    \/ \E c \in Calls : SubscribeStep(c)
    \/ \E c \in Calls : StreamGoroutineStep(c)
    \/ \E k \in Closers : CloseStart(k)
    \/ \E k \in Closers : CloseStep(k)

SpecRace == InitRace /\ [][NextRace]_vars

\* FairSpecShutdown: NumCalls concurrent Subscribe calls of one topic and one Close
\* call, with every goroutine of the Subscriber and every call that was made
\* scheduled fairly.  The transport delivers one envelope, which decodes, to the
\* stream of the first call, whose Receive may fail; the application may receive
\* the message and decides nothing.  The application, the callers of Subscribe and
\* Close and the transport's delivery are under no obligation.
InitShutdown == InitWith(NumCalls, 1, {DefaultConfig}, {EmptyRemote})

\* the steps of a callback whose message the application does not decide
UndecidedCallbackStep(c, e) ==
    \/ OfferClosing(c, e)
    \/ OfferCtxDone(c, e)
    \/ AwaitClosing(c, e)
    \/ AwaitCtxDone(c, e)

NextShutdown ==
    \/ NextRace
    \/ ReceiveStop(1, "error")
    \/ Retry(1)
    \/ Deliver(1, 1, TRUE)
    \/ OfferSend(1, 1)
    \/ UndecidedCallbackStep(1, 1)

FairnessShutdown ==
    /\ \A c \in 1..NumCalls : WF_vars(SubscribeStep(c)) /\ WF_vars(StreamGoroutineStep(c))
    /\ WF_vars(Retry(1))
    /\ WF_vars(UndecidedCallbackStep(1, 1))
    /\ WF_vars(CloseStep(1))

FairSpecShutdown == InitShutdown /\ [][NextShutdown]_vars /\ FairnessShutdown

\* SpecResolve: NumResolvers concurrent Subscribe and SubscribeInitialize calls
\* resolving subscriptions against the remote service, on which the subscription
\* of "t1" exists or not.
ResolveRemotes ==
    {EmptyRemote,
     PutSub([topics |-> {FullyQualifiedTopicName("p", "t1")}, subs |-> [n \in {} |-> 0]],
            "t1", [Topic |-> FullyQualifiedTopicName("p", "t1"), Filter |-> <<>>,
                   Endpoint |-> "e"])}

InitResolve == InitWith(NumResolvers, 1, {DefaultConfig}, ResolveRemotes)

NextResolve ==
    \/ \E c \in Calls, topic \in Topics : SubscribeStart(c, topic)
    \/ \E c \in Calls, topic \in Topics : InitializeStart(c, topic)
    \/ \E c \in Calls : CacheRead(c)
    \/ \E c \in Calls, ok \in BOOLEAN : LockAndNewClient(c, ok)
    \/ \E c \in Calls, fault \in {"none", "subExists", "createSub"} :
           Resolve(c, fault, NoPeer)
    \/ \E c \in Calls : Spawn(c)

SpecResolve == InitResolve /\ [][NextResolve]_vars

\* SpecReconcile: NumReconcilers successive SubscribeInitialize calls (Subscribe
\* resolves through the same subscription method) on a Subscriber of any
\* configuration, against a remote service that holds no subscription or one subscription under a name the calls may generate, with
\* any one remote call failing, or answering AlreadyExists for what a peer has
\* created.
ConfigFilters == {<<>>, <<"a", "b">>}
StoredFilters == {<<"a", " ", "b">>, <<"c">>}
Endpoints == {"", "e"}

ReconcileConfigs ==
    [GenerateSubscriptionName : {"TopicSubscriptionName", "fixed"},
     ProjectID : {"p"},
     TopicProjectID : {"", "q"},
     DoNotCreateSubscriptionIfMissing : BOOLEAN,
     DoNotUpdateSubscriptionIfEndpointChanged : BOOLEAN,
     RecreateSubscriptionIfFilterChanged : BOOLEAN,
     DoNotCreateTopicIfMissing : BOOLEAN,
     Filter : ConfigFilters,
     Endpoint : Endpoints]

StoredTopics ==
    {FullyQualifiedTopicName("p", "t1"), FullyQualifiedTopicName("p", "t2"),
     FullyQualifiedTopicName("q", "t1")}

\* the subscriptions the remote service may hold under a name
StoredDescriptors == [Topic : StoredTopics, Filter : StoredFilters, Endpoint : Endpoints]

ReconcileRemotes ==
    {[topics |-> ts, subs |-> [n \in {} |-> 0]] :
         ts \in {{}, {FullyQualifiedTopicName("p", "t1")}}}
    \cup {[topics |-> {d.Topic}, subs |-> [n \in {name} |-> d]] :
              name \in {"t1", "sub_fixed"}, d \in StoredDescriptors}

\* the subscriptions a peer may have created when CreateSubscription answers
\* AlreadyExists: on any topic, with a filter and an endpoint of its own
PeerDescriptors == [Topic : StoredTopics, Filter : {<<"c">>}, Endpoint : {"e"}]

Peers(fault) == IF fault = "createSubExists" THEN PeerDescriptors ELSE {NoPeer}

InitReconcile == InitWith(NumReconcilers, 1, ReconcileConfigs, ReconcileRemotes)

\* a call that has returned to its caller
CallReturned(c) == call[c].pc \in {"returned", "done"}

\* the calls are made one after the other
Successive(c) == \A d \in Calls : d < c => CallReturned(d)

NextReconcile ==
    \/ \E c \in Calls, topic \in Topics : Successive(c) /\ InitializeStart(c, topic)
    \/ \E c \in Calls : CacheRead(c)
    \/ \E c \in Calls : LockAndNewClient(c, TRUE)
    \/ \E c \in Calls, fault \in Faults : \E peer \in Peers(fault) : Resolve(c, fault, peer)

SpecReconcile == InitReconcile /\ [][NextReconcile]_vars

(***************************************************************************)
(* The claims about the callback of receive (Spec, FairSpec).              *)
(***************************************************************************)
\* C1: for every envelope handed to the callback, at most one upstream call is
\* ever issued: never both Ack and Nack, never two Acks, never two Nacks.
C1_AtMostOneUpstreamCall ==
    \A c \in Calls, e \in Envelopes : env[c][e].ack + env[c][e].nack <= 1

\* an envelope the application acknowledged, whose context was then canceled and
\* whose Subscriber was closed, has been resolved by one upstream call
C1_Witness ==
    \E e \in Envelopes :
        /\ env[1][e].pc = "done" /\ env[1][e].app = "acked"
        /\ stream[1].ctxDone /\ closing = "closed"
        /\ env[1][e].ack + env[1][e].nack = 1

CloseCalled == \E k \in Closers : closer[k].pc # "idle"

\* the events after which the callback holding envelope e has to end
Triggered(c, e) == env[c][e].app # "none" \/ MsgCtxDone(c) \/ CloseCalled

\* C2: under fair scheduling, once the application has acked or nacked a message,
\* or its context is canceled, or Close is called, the callback holding the
\* envelope issues exactly one upstream Ack or Nack and returns.
C2_EventuallyResolved ==
    \A e \in Envelopes :
        (env[1][e].pc \in {"offer", "await"} /\ Triggered(1, e))
            ~> (env[1][e].pc = "done" /\ env[1][e].ack + env[1][e].nack = 1)

\* a delivered message that nobody decided and nobody closed, resolved on the
\* cancellation of its context
C2_Witness ==
    \E e \in Envelopes :
        /\ env[1][e].pc = "done" /\ env[1][e].delivered /\ env[1][e].app = "none"
        /\ env[1][e].by = "awaitCtxDone" /\ ~CloseCalled
        /\ env[1][e].ack + env[1][e].nack = 1

NackingCases == {"decode", "offerClosing", "offerCtxDone", "awaitClosing", "awaitCtxDone",
                 "nacked"}

\* C3: an upstream Ack is issued only for a message that was delivered on the
\* output stream and acknowledged by the application; every other way the callback
\* ends (decode failure, offer lost to shutdown or cancellation, shutdown or
\* cancellation while waiting, application nack) issues an upstream Nack.
C3_AckOnlyIfDeliveredAndAcked ==
    \A c \in Calls, e \in Envelopes :
        LET m == env[c][e]
        IN  /\ m.ack > 0 => m.delivered /\ m.app = "acked" /\ m.by = "acked"
            /\ m.pc = "done" => m.by \in NackingCases \cup {"acked"}
            /\ m.pc = "done" /\ m.by \in NackingCases => m.nack = 1 /\ m.ack = 0
            /\ m.pc = "done" /\ m.by = "acked" => m.ack = 1 /\ m.nack = 0

\* one envelope acked upstream after the application's ack, the other nacked
\* upstream after a decode failure
C3_Witness ==
    \E e, f \in Envelopes :
        /\ env[1][e].by = "acked" /\ env[1][e].ack = 1
        /\ env[1][f].by = "decode" /\ env[1][f].nack = 1 /\ ~env[1][f].delivered

\* C4, as claimed: a message the application acknowledged before any Close call
\* and before its context was canceled is acked upstream, whatever happens later.
C4_AckBeforeShutdownIsAcked ==
    \A c \in Calls, e \in Envelopes :
        env[c][e].pc = "done" /\ env[c][e].ackedBefore
            => env[c][e].ack = 1 /\ env[c][e].nack = 0

\* C4, amended: a message the application acknowledged is acked upstream if the
\* closing channel is still open and the message's context not yet done when the
\* callback's select runs; it is nacked only if one of the two had happened.
C4_AckedUnlessRaced ==
    \A c \in Calls, e \in Envelopes :
        env[c][e].pc = "done" /\ env[c][e].app = "acked" /\ ~env[c][e].raced
            => env[c][e].ack = 1 /\ env[c][e].nack = 0

\* acknowledged before Close and cancellation, acked upstream, and closed afterwards
C4_Witness ==
    \E e \in Envelopes :
        /\ env[1][e].pc = "done" /\ env[1][e].ackedBefore /\ ~env[1][e].raced
        /\ env[1][e].ack = 1 /\ closing = "closed"

(***************************************************************************)
(* The claims about Subscribe and Close.                                   *)
(***************************************************************************)
\* what the Subscribe call c has done when it was rejected at lines 172-174: it has
\* failed with ErrSubscriberClosed and resolved nothing, with no remote call, no
\* client, no cache access, no counter increment and no goroutine
Rejected(c) ==
    /\ call[c].pc = "done" /\ call[c].err = ErrSubscriberClosed
    /\ call[c].sub = NoSub /\ call[c].log = <<>> /\ call[c].client = 0
    /\ stream[c] = IdleStream
    /\ (Calls = {c} => /\ clients = <<>>
                       /\ DOMAIN activeSubscriptions = {}
                       /\ allSubscriptionsWaitGroup = 0
                       /\ remote = EmptyRemote)

\* C6, as stated: a Subscribe call that starts after Close has been invoked fails
\* with ErrSubscriberClosed and attempts no resolution: no remote call, no client,
\* no cache access, no counter increment, no goroutine.
C6_SubscribeAfterCloseInvokedFails ==
    \A c \in Calls :
        call[c].kind = "Subscribe" /\ call[c].invokedAtStart => Rejected(c)

\* C6: a Subscribe call that starts once Close has set the closed flag, and so
\* after any Close call has returned, fails with ErrSubscriberClosed and resolves
\* nothing: no remote call, no client, no cache access, no counter increment, no
\* goroutine.
C6_SubscribeAfterCloseFails ==
    \A c \in Calls :
        call[c].kind = "Subscribe" /\ (call[c].closedAtStart \/ call[c].afterClose)
            => Rejected(c)

\* a Subscribe call made after Close returned
C6_Witness ==
    /\ call[1].pc = "done" /\ call[1].afterClose
    /\ call[1].err = ErrSubscriberClosed

\* the Subscribe calls that had returned an output channel when Close call k started
StreamsBefore(k) == closer[k].seen

StreamOver(c) ==
    /\ stream[c].output = "closed"
    /\ stream[c].pc = "exited"
    /\ \A e \in Envelopes : env[c][e].pc \in {"none", "done"}

\* C5, as claimed: once any Close call has returned, the output channel of every
\* Subscribe call that had returned before that Close call started is closed, and
\* nothing was sent on it after the return.
C5_StreamsClosedAfterAnyClose ==
    \A k \in Closers :
        closer[k].pc \in {"returned", "returnedEarly"}
            => \A c \in StreamsBefore(k) :
                   /\ stream[c].output = "closed"
                   /\ \A e \in Envelopes : k \notin env[c][e].sentAfterClose

\* C5, amended: once the Close call that carried out the shutdown (the one that
\* found the flag unset, closed the closing channel and waited) has returned, the
\* output channel of every Subscribe call that had returned before it started is
\* closed, its goroutines and callbacks are over and nothing was sent on it after
\* the return.  A Close call that finds the flag set returns at once, whatever the
\* state of the streams.
C5_StreamsClosedAfterShutdown ==
    \A k \in Closers :
        closer[k].pc = "returned"
            => \A c \in StreamsBefore(k) :
                   /\ StreamOver(c)
                   /\ \A e \in Envelopes : k \notin env[c][e].sentAfterClose

\* Close returned after a stream that had delivered a message was shut down
C5_Witness ==
    \E k \in Closers :
        /\ closer[k].pc = "returned"
        /\ 1 \in StreamsBefore(k)
        /\ env[1][1].delivered /\ env[1][1].nack = 1
        /\ stream[1].output = "closed"

\* C7: whatever the number of Close calls and their interleaving, the closing
\* channel is closed once, no close of a closed channel happens, one call carries
\* out the shutdown and every other call returns nil without repeating it.
C7_CloseIdempotent ==
    /\ \A k \in Closers : closer[k].pc # "panicked"
    /\ "close of closed channel" \notin panics
    /\ Cardinality({k \in Closers : closer[k].pc \in {"wait", "waiting", "parked", "woken", "release",
                                                     "returned"}}) <= 1
    /\ \A k \in Closers : closer[k].pc = "returnedEarly" => closer[k].ret = ErrNil

\* C8: the Close call that reaches the release loop calls Close() on every client
\* of s.clients, in order, whether or not earlier ones failed; it collects one error
\* per failing client and returns an error exactly when some client failed.
C8_ReleasesEveryClient ==
    \A k \in Closers :
        closer[k].pc = "returned"
            => LET failed == closer[k].failing \cap Range(closer[k].clients)
               IN  /\ closer[k].attempted = closer[k].clients
                   /\ Range(closer[k].clients) \subseteq clientClosed
                   /\ Range(closer[k].errors) = failed
                   /\ Len(closer[k].errors) = Cardinality(failed)
                   /\ (closer[k].ret # ErrNil) <=> (failed # {})

\* two clients, the first of which fails to close while the second closes
C8_Witness ==
    \E k \in Closers :
        /\ closer[k].pc = "returned"
        /\ Len(closer[k].clients) = 2
        /\ closer[k].failing = {closer[k].clients[1]}
        /\ closer[k].attempted = closer[k].clients
        /\ closer[k].ret # ErrNil

(***************************************************************************)
(* The claims about the subscription cache (SpecResolve).                  *)
(***************************************************************************)
\* the resolution of call c has come to a result, or the call was rejected
Finished(c) == ResolutionOver(c)

\* C9: a resolution that starts after a resolution of the same subscription name
\* has succeeded returns the very handle that resolution returned, calls nothing on
\* the remote service and opens no client.
C9_SequentialResolutionReturnsCached ==
    \A c \in Calls :
        Finished(c) /\ call[c].prior # {}
            => /\ call[c].err = ErrNil
               /\ call[c].prior = {call[c].sub}
               /\ call[c].log = <<>>
               /\ call[c].client = 0

\* C10: of the resolutions of one subscription name that succeed, concurrent ones
\* included, one only has opened a client and called the remote service, and all
\* return the same handle.
C10_ConcurrentResolutionsShareOneHandle ==
    \A c, d \in Calls :
        c # d /\ Resolved(c) /\ Resolved(d) /\ call[c].name = call[d].name
            => /\ call[c].sub = call[d].sub
               /\ ~(call[c].log # <<>> /\ call[d].log # <<>>)
               /\ ~(call[c].client # 0 /\ call[d].client # 0)

(***************************************************************************)
(* The claims about reconciliation (SpecReconcile).                        *)
(***************************************************************************)
\* a call whose resolution came to a result: from the cache or from the remote service
Consulted(c) == Finished(c) /\ (call[c].hit \/ call[c].log # <<>>)

\* the fully qualified topic a call asks for
RequestedTopic(c) == FullyQualifiedTopicName(topicProjectID(config), call[c].topic)

\* the subscription the call's name denoted on the remote service, if any
Existed(c) == SubExists(call[c].remoteAt, call[c].name)
Stored(c) == call[c].remoteAt.subs[call[c].name]

Issued(c, op) == op \in Range(call[c].log)

\* C11: every resolution, whatever calls preceded it on the Subscriber, whose
\* subscription name denotes a subscription bound to another topic than the fully
\* qualified requested one fails with ErrUnexpectedTopic, whatever the other fields
\* of the descriptor, and issues no delete, create or update and caches nothing
\* (unless the existence check or the fetch of the descriptor itself fails).
C11_TopicMismatchAlwaysFails ==
    \A c \in Calls :
        /\ Consulted(c)
        /\ Existed(c)
        /\ Stored(c).Topic # RequestedTopic(c)
        /\ call[c].fault \notin {"subExists", "subConfig"}
        => /\ call[c].err = ErrUnexpectedTopic
           /\ call[c].sub = NoSub
           /\ ~Issued(c, "subDelete") /\ ~Issued(c, "subUpdate")
           /\ ~Issued(c, "createSub") /\ ~Issued(c, "createTopic")
           /\ ~call[c].wrote

\* a resolution that found its subscription on the remote service, bound to the
\* requested topic, and fetched its descriptor
Matching(c) ==
    /\ Finished(c) /\ call[c].log # <<>>
    /\ Existed(c)
    /\ Stored(c).Topic = RequestedTopic(c)
    /\ call[c].fault \notin {"subExists", "subConfig"}

\* lines 476: the condition of the delete-and-recreate branch
Recreating(c) == isFilterChanged(config, Stored(c)) /\ config.RecreateSubscriptionIfFilterChanged

\* the position of a remote call in the log of a resolution, 0 if absent
Position(c, op) ==
    IF Issued(c, op) THEN CHOOSE i \in DOMAIN call[c].log : call[c].log[i] = op ELSE 0

\* C12: for an existing subscription with matching topic, if
\* RecreateSubscriptionIfFilterChanged is set and the stored filter differs from the
\* desired one once spaces are removed, the resolution deletes the subscription and
\* then recreates it against the same topic (unless a peer has recreated it in
\* between), and fails if the delete or the create fails; otherwise it issues no
\* delete and no create.
C12_RecreateOnFilterChange ==
    \A c \in Calls :
        Matching(c) =>
            IF Recreating(c)
            THEN /\ Issued(c, "subDelete")
                 /\ call[c].fault \in {"subDelete", "topicExists", "createTopic", "createSub"}
                        => call[c].err # ErrNil
                 /\ call[c].fault = "subDelete" => ~Issued(c, "createSub")
                 /\ call[c].err = ErrNil
                        => /\ Issued(c, "createSub")
                           /\ Position(c, "subDelete") < Position(c, "createSub")
                           /\ call[c].fault # "createSubExists"
                                  => call[c].boundTo = Stored(c).Topic
            ELSE /\ ~Issued(c, "subDelete")
                 /\ ~Issued(c, "createSub")
                 /\ ~Issued(c, "createTopic")

\* the number of times a resolution issued a remote call
Times(c, op) == Cardinality({i \in DOMAIN call[c].log : call[c].log[i] = op})

\* lines 491-495: the condition of the update
Updating(c) ==
    /\ ~config.DoNotUpdateSubscriptionIfEndpointChanged
    /\ isPushEndpointChanged(config, Stored(c))

\* C13: for an existing subscription with matching topic that is not recreated, if
\* DoNotUpdateSubscriptionIfEndpointChanged is false and the desired push endpoint
\* differs from the stored one, the resolution issues exactly one update, which
\* changes the push endpoint only, and fails if the update fails; if the flag is
\* set or the endpoints are equal it issues no update.
C13_UpdateOnEndpointChange ==
    \A c \in Calls :
        Matching(c) /\ ~Recreating(c) =>
            IF Updating(c)
            THEN /\ Times(c, "subUpdate") = 1
                 /\ call[c].fault = "subUpdate"
                        => /\ call[c].err # ErrNil /\ call[c].sub = NoSub
                           /\ call[c].remoteAfter = call[c].remoteAt
                 /\ call[c].fault # "subUpdate"
                        => /\ call[c].err = ErrNil
                           /\ call[c].remoteAfter.subs[call[c].name]
                                  = [Stored(c) EXCEPT !.Endpoint = config.Endpoint]
            ELSE /\ ~Issued(c, "subUpdate")
                 /\ call[c].remoteAfter = call[c].remoteAt

\* a resolution that updated the push endpoint of a subscription whose filter
\* differs from the desired one, and left the filter alone
C13_Witness ==
    \E c \in Calls :
        /\ Matching(c) /\ ~Recreating(c) /\ Updating(c)
        /\ call[c].err = ErrNil /\ Times(c, "subUpdate") = 1
        /\ isFilterChanged(config, Stored(c))
        /\ call[c].remoteAfter.subs[call[c].name].Endpoint = config.Endpoint
        /\ call[c].remoteAfter.subs[call[c].name].Filter = Stored(c).Filter

\* a resolution that asked the remote service and found no subscription of its name
Missing(c) ==
    /\ Finished(c) /\ call[c].log # <<>>
    /\ ~Existed(c)
    /\ call[c].fault # "subExists"

\* lines 402-408: the existence check of createSubscription, made on
\* client.Topic(topicName), the topic of the client's project
TopicMissing(c) ==
    FullyQualifiedTopicName(config.ProjectID, call[c].topic) \notin call[c].remoteAt.topics

\* the topic the call asks for, the one of topicProjectID(), does not exist
RequestedTopicMissing(c) == RequestedTopic(c) \notin call[c].remoteAt.topics

\* C14: when the named subscription does not exist: with
\* DoNotCreateSubscriptionIfMissing the resolution fails with
\* ErrSubscriptionDoesNotExist and creates nothing; otherwise, if the requested topic
\* is missing and DoNotCreateTopicIfMissing is set, it fails with
\* ErrTopicDoesNotExist and creates no subscription; otherwise (no remote call
\* failing, no peer creating the subscription in between) it creates the topic only
\* if it is missing, creates the subscription bound to that topic and caches the
\* handle.
C14_MissingSubscription ==
    \A c \in Calls :
        Missing(c) =>
            IF config.DoNotCreateSubscriptionIfMissing
            THEN /\ call[c].err = ErrSubscriptionDoesNotExist
                 /\ call[c].remoteAfter = call[c].remoteAt
                 /\ ~call[c].wrote
            ELSE IF RequestedTopicMissing(c) /\ config.DoNotCreateTopicIfMissing
            THEN call[c].fault # "topicExists"
                     => /\ call[c].err = ErrTopicDoesNotExist
                        /\ call[c].remoteAfter = call[c].remoteAt
                        /\ ~call[c].wrote
            ELSE call[c].fault \in {"none", "createTopicExists"}
                     => /\ call[c].err = ErrNil
                        /\ Issued(c, "createTopic") <=> RequestedTopicMissing(c)
                        /\ RequestedTopic(c) \in call[c].remoteAfter.topics
                        /\ Times(c, "createSub") = 1
                        /\ call[c].boundTo = RequestedTopic(c)
                        /\ call[c].wrote
                        /\ call[c].sub # NoSub

(***************************************************************************)
(* The claims about the retry supervisor and termination (fair specs).     *)
(***************************************************************************)
\* the step in which the retried function of lines 200-214 returns
SupervisorDecides(c) == stream[c].pc = "stopping" /\ stream'[c].pc # "stopping"

\* what a step of the model may do to the supervisor of stream c
SupervisorPolicy(c) ==
    /\ SupervisorDecides(c) =>
          /\ stream[c].result = ErrNil => stream'[c].pc = "finished"
          /\ (stream[c].result # ErrNil /\ getClosed) => stream'[c].pc = "finished"
          /\ (stream[c].result # ErrNil /\ ~getClosed) =>
                /\ stream'[c].pc = "backoff"
                /\ stream'[c].attempts = OneMoreAttempt(stream[c].attempts)
    /\ stream[c].pc = "finished" => stream'[c].pc \in {"finished", "outputClosed"}
    /\ stream[c].pc = "backoff" => stream'[c].pc \in {"backoff", "receiving"}
    /\ stream[c].pc \in {"receiving", "stopping", "backoff"} =>
          /\ stream[c].output = "open" /\ stream'[c].output = "open"
          /\ call'[c].sub = call[c].sub /\ call[c].sub # NoSub
    /\ (stream[c].output = "open" /\ stream'[c].output = "closed") =>
          stream[c].pc = "finished"

\* C15: when the receive loop returns nil the supervisor stops and the output
\* stream is closed; when it returns an error with the shutdown flag set the
\* supervisor stops without another attempt; when it returns an error with the flag
\* unset the loop runs again on the same handle and the same output stream, which
\* stays open in between, for any number of consecutive errors, so that delivery
\* resumes.
C15_RetryPolicy ==
    /\ [][\A c \in Calls : SupervisorPolicy(c)]_vars
    /\ (stream[1].pc = "finished") ~> (stream[1].output = "closed")
    /\ (stream[1].pc = "backoff") ~> (stream[1].pc = "receiving")

\* a message delivered on the output stream, still open, by an attempt that
\* followed two consecutive errors: the first two Receive calls failed, and no
\* message was handed to a callback before them
C15_Witness ==
    /\ stream[1].attempts >= 2 /\ stream[1].output = "open"
    /\ \E e \in Envelopes : env[1][e].delivered /\ env[1][e].attempt >= 2
    /\ \A e \in Envelopes : env[1][e].pc # "none" => env[1][e].attempt >= 2

\* a stream whose goroutines have been spawned and have not all ended
Running(c) ==
    stream[c].pc \in {"receiving", "stopping", "backoff", "finished", "outputClosed",
                      "releasing", "storing", "signalling"}

\* a callback blocked in one of its two selects
Blocked(c, e) == env[c][e].pc \in {"offer", "await"}

\* C16: under fair scheduling Close returns even if the application never receives
\* from the output stream and never acks or nacks: once the closing channel is
\* closed every blocked callback returns, having nacked its envelope when the
\* application has not decided, every running stream ends (from a back-off too),
\* and Close passes its wait with the counter at zero and returns.
C16_CloseReturns ==
    /\ (closer[1].pc # "idle") ~> (closer[1].pc = "returned")
    /\ (closer[1].pc = "wait") ~> (closer[1].pc = "release" /\ allSubscriptionsWaitGroup = 0)
    /\ \A c \in 1..NumCalls :
          /\ (closing = "closed" /\ Running(c)) ~> (stream[c].pc = "exited" /\ stream[c].ctxDone)
          /\ (closing = "closed" /\ stream[c].pc = "backoff") ~> (stream[c].pc = "exited")
          /\ \A e \in Envelopes :
                (closing = "closed" /\ Blocked(c, e))
                    ~> /\ env[c][e].pc = "done"
                       /\ env[c][e].app = "none" => (env[c][e].nack = 1 /\ env[c][e].ack = 0)

(***************************************************************************)
(* The claims about Subscribe racing with Close (Spec, SpecClose).         *)
(***************************************************************************)
\* a Close call that has passed s.allSubscriptionsWaitGroup.Wait() (line 264)
PastWait(k) == closer[k].pc \in {"release", "returned"}

\* a Subscribe call that has started its stream (lines 194-233)
StreamStarted(c) == stream[c].output # "none"

\* C17: whatever the interleaving of a Subscribe call with a Close call, either
\* Subscribe fails with ErrSubscriberClosed or Close waits for the stream it
\* starts: Close is not past its wait, and has not released the connections,
\* while the output of a started stream is open.
C17_StartedStreamsAreCounted ==
    \A c \in Calls, k \in Closers :
        (PastWait(k) /\ StreamStarted(c)) => stream[c].output = "closed"

\* the connections opened by newClient (lines 436-447) so far
Opened == Range(clients)

\* C18: once the Close call that carried out the shutdown has returned, every
\* connection this Subscriber ever opened has been released: none is opened after
\* the release loop and none is left unreleased, whether it was opened by a failed
\* resolution, by SubscribeInitialize or by a resolution concurrent with Close.
C18_NoConnectionOutlivesClose ==
    \A k \in Closers :
        closer[k].pc = "returned"
            => /\ Opened \subseteq clientClosed
               /\ Opened = Range(closer[k].clients)

(***************************************************************************)
(* The claims about the life of a stream (SpecRace).                       *)
(***************************************************************************)
\* the finisher of stream c is inside a Done() that brought the counter to zero
InDone(c) == stream[c].pc \in {"releasing", "storing", "signalling"}

\* what holds of stream c in every state
StreamInvariant(c) ==
    /\ stream[c].output = "closed" =>
          /\ stream[c].pc = "outputClosed" \/ InDone(c) \/ stream[c].pc = "exited"
          /\ Active(c) = {}
    /\ (stream[c].pc = "outputClosed" \/ InDone(c) \/ stream[c].pc = "exited")
          => stream[c].output = "closed"
    /\ \A e \in Envelopes : env[c][e].by # "panic"

\* what a step may do to stream c
StreamStep(c) ==
    /\ (stream[c].pc = "none" /\ stream'[c].pc # "none") =>
          /\ allSubscriptionsWaitGroup' = allSubscriptionsWaitGroup + 1
          /\ stream'[c].pc = "receiving" /\ stream'[c].output = "open"
          /\ call[c].kind = "Subscribe" /\ call[c].err = ErrNil
    /\ stream[c].pc # "none" => stream'[c].pc # "none"
    /\ (stream[c].output # "closed" /\ stream'[c].output = "closed") =>
          /\ stream[c].pc = "finished" /\ stream[c].output = "open"
          /\ Active(c) = {}
    /\ stream[c].output = "closed" =>
          /\ stream'[c].output = "closed"
          /\ stream'[c].pc = stream[c].pc \/ InDone(c)' \/ stream'[c].pc = "exited"
    /\ (stream[c].pc = "outputClosed" /\ stream'[c].pc # "outputClosed") =>
          /\ stream'[c].pc \in {"releasing", "exited"}
          /\ allSubscriptionsWaitGroup' = allSubscriptionsWaitGroup - 1
    /\ (stream[c].pc # "exited" /\ stream'[c].pc = "exited") =>
          stream[c].pc = "outputClosed" \/ InDone(c)
    /\ InDone(c) => InDone(c)' \/ stream'[c].pc = "exited"
    /\ stream[c].pc = "exited" => stream'[c].pc = "exited"

\* C19: for every successful Subscribe the counter is incremented once, before the
\* goroutines are spawned, and decremented once; the output channel is closed once,
\* and only after the retried receive loop has returned with no callback running;
\* so nothing is sent on a closed output channel and the counter is never negative,
\* whether the stream ends by Close, by the caller's cancellation or by a nil
\* return of receive.
C19_StreamLifecycle ==
    /\ [](/\ allSubscriptionsWaitGroup >= 0
          /\ \A c \in Calls : StreamInvariant(c)
          /\ panics \cap {"negative WaitGroup counter", "send on closed channel",
                          "close of closed channel"} = {})
    /\ [][\A c \in Calls : StreamStep(c)]_vars

(***************************************************************************)
(* The claim about ordering within a stream (Spec).                        *)
(***************************************************************************)
\* the messages of stream c sent on output whose callbacks wait for an outcome
Awaiting(c) == {e \in Envelopes : env[c][e].pc = "await"}

\* the upstream Ack or Nack of envelope e has been issued
OutcomeIssued(c, e) == env[c][e].ack + env[c][e].nack >= 1

\* the step in which the message of envelope e is sent on output (line 321)
Sent(c, e) == env[c][e].pc = "offer" /\ env'[c][e].pc = "await"

\* the step in which the callback of envelope e reaches its first select
Offered(c, e) == env[c][e].pc = "none" /\ env'[c][e].pc = "offer"

\* C20, as claimed: within one subscription the messages are offered to the output
\* stream in the transport's delivery order, no message is offered before the
\* outcome of the previous delivered message has been issued upstream, and at most
\* one delivered message awaits its outcome at any time.
C20_OneMessageAtATime ==
    /\ [](\A c \in Calls : Cardinality(Awaiting(c)) <= 1)
    /\ [][\A c \in Calls, e \in Envelopes :
             (Sent(c, e) \/ Offered(c, e)) =>
                 \A f \in Envelopes : f < e => OutcomeIssued(c, f)]_vars

\* C20, amended: each envelope is handled by a callback of its own, started by the
\* transport: its message is sent on the output stream at most once, before any
\* upstream Ack or Nack of that envelope, which is issued once, when the callback
\* ends.  The callbacks of one subscription run concurrently: another message may
\* be offered and sent while earlier ones await their outcomes, in any order of
\* sends, the number of messages in flight being bounded by the transport only.
C20_OwnLifeCyclePerMessage ==
    /\ [](\A c \in Calls, e \in Envelopes :
             /\ env[c][e].delivered => env[c][e].pc \in {"await", "done"}
             /\ env[c][e].pc \in {"none", "offer", "await"} => ~OutcomeIssued(c, e)
             /\ env[c][e].pc = "done" => env[c][e].ack + env[c][e].nack = 1)
    /\ [][\A c \in Calls, e \in Envelopes :
             /\ Sent(c, e) => (~env[c][e].delivered /\ env'[c][e].delivered)
             /\ env[c][e].delivered => env'[c][e].delivered
             /\ (~env[c][e].delivered /\ env'[c][e].delivered) => Sent(c, e)
             /\ \A f \in Envelopes \ {e} :
                   (Sent(c, e) \/ Offered(c, e)) => env'[c][f] = env[c][f]]_vars

\* two messages of one subscription await their outcomes at the same time, the
\* later delivered having been sent while the earlier was still offered
C20_Witness ==
    /\ Awaiting(1) = {1, 2}
    /\ env[1][1].app = "none" /\ env[1][2].app = "acked"

(***************************************************************************)
(* The claims about what a resolution returns and leaves (SpecReconcile,   *)
(* SpecResolve).                                                           *)
(***************************************************************************)
\* a resolution that has returned a handle and no error
Succeeded(c) == Finished(c) /\ call[c].err = ErrNil

\* C21: the handle returned by a successful resolution carries
\* s.config.ReceiveSettings on every path: subscription created, existing
\* subscription left as it is, existing subscription with its push endpoint
\* updated, subscription deleted and recreated after a filter change.
C21_HandleCarriesReceiveSettings ==
    \A c \in Calls :
        Succeeded(c) => /\ call[c].sub # NoSub
                        /\ call[c].sub.ReceiveSettings = "config"

\* a Subscribe or SubscribeInitialize call whose resolution has failed
Failed(c) == call[c].pc = "done" /\ call[c].err # ErrNil

\* the step in which the resolution of call c fails
Fails(c) == call[c].pc # "done" /\ call'[c].pc = "done" /\ call'[c].err # ErrNil

\* the step in which call c releases the exclusive lock after a successful resolution
ReleasesWithHandle(c) ==
    activeSubscriptionsLock = c /\ activeSubscriptionsLock' # c /\ call'[c].err = ErrNil

\* the streams started so far
Spawned == {c \in Calls : stream[c].pc # "none"}

\* C22: a failed resolution is reported to its caller and leaves no trace of a
\* stream: the call returns the error and no output channel, the cache is as it
\* was (only handles of successful resolutions are cached, and they are cached
\* before the exclusive lock is released), the counter is as it was, no goroutine
\* is spawned and the call issues nothing more.
C22_FailedResolutionLeavesNoStream ==
    /\ [](/\ \A c \in Calls :
                Failed(c) => /\ stream[c] = IdleStream
                             /\ call[c].sub = NoSub
                             /\ ~call[c].wrote
          /\ allSubscriptionsWaitGroup = Cardinality(Spawned)
          /\ \A c \in Spawned : Succeeded(c) /\ call[c].kind = "Subscribe"
          /\ \A n \in DOMAIN activeSubscriptions :
                \E c \in Calls : /\ Succeeded(c) /\ call[c].wrote
                                 /\ call[c].name = n
                                 /\ call[c].sub = activeSubscriptions[n])
    /\ [][\A c \in Calls :
             /\ Fails(c) => /\ activeSubscriptions' = activeSubscriptions
                            /\ allSubscriptionsWaitGroup' = allSubscriptionsWaitGroup
                            /\ stream' = stream
             /\ Failed(c) => call'[c] = call[c]
             /\ ReleasesWithHandle(c) =>
                   /\ call[c].name \in DOMAIN activeSubscriptions'
                   /\ activeSubscriptions'[call[c].name] = call'[c].sub]_vars

\* a Subscribe call whose creation of the subscription failed, next to a Subscribe
\* call that succeeded and started its stream
C22_Witness ==
    \E c, d \in Calls :
        /\ Failed(c) /\ call[c].kind = "Subscribe" /\ call[c].err = ErrRemote("createSub")
        /\ stream[d].pc = "receiving" /\ allSubscriptionsWaitGroup = 1
        /\ DOMAIN activeSubscriptions = {call[d].name}

(***************************************************************************)
(* The claim about decode failures (Spec).                                 *)
(***************************************************************************)
\* envelope e failed to decode (lines 294-299)
DecodeFailed(c, e) == env[c][e].by = "decode"

\* the step in which the callback of envelope e finds that it does not decode
FailsToDecode(c, e) == ~DecodeFailed(c, e) /\ DecodeFailed(c, e)'

\* C23: an envelope that fails to decode is nacked upstream at once, is never
\* offered on the output stream, and does not end the receive loop: the loop goes
\* on receiving, and the envelopes after it are decoded and offered.
C23_DecodeFailureNackedLoopContinues ==
    /\ [](\A c \in Calls, e \in Envelopes :
             DecodeFailed(c, e) =>
                 /\ env[c][e].pc = "done"
                 /\ env[c][e].nack = 1 /\ env[c][e].ack = 0
                 /\ ~env[c][e].delivered /\ env[c][e].app = "none")
    /\ [][\A c \in Calls, e \in Envelopes :
             /\ FailsToDecode(c, e) =>
                   /\ env[c][e].pc = "none" /\ env'[c][e].pc = "done"
                   /\ stream[c].pc = "receiving" /\ stream' = stream
                   /\ \A f \in Envelopes \ {e} : env'[c][f] = env[c][f]
                   /\ \A f \in Envelopes :
                         f = e + 1 => (ENABLED Deliver(c, f, TRUE))'
             /\ DecodeFailed(c, e) => env'[c][e] = env[c][e]]_vars

\* the envelope after one that failed to decode has been decoded by the same run
\* of the loop, sent on the output stream and acked
C23_Witness ==
    /\ DecodeFailed(1, 1)
    /\ env[1][2].delivered /\ env[1][2].ack = 1
    /\ env[1][2].attempt = env[1][1].attempt
    /\ stream[1].attempts = env[1][1].attempt
====
